---- MODULE Spec2Model ----
(***************************************************************************)
(* Model of the GCP test-project manager (main.go): the project-name       *)
(* expander, and the provisioning sequence run by run(): ensure the        *)
(* project exists, enable the bootstrap service, link billing, enable the  *)
(* configured services, run the setup commands.                            *)
(*                                                                         *)
(* Strings whose characters matter (name patterns, project names, setup    *)
(* commands) are sequences of one-character strings.  Service ids and the  *)
(* billing account are opaque strings.                                     *)
(***************************************************************************)
EXTENDS Integers, Sequences, FiniteSets, TLC

(***************************************************************************)
(* Bounds of the model.                                                    *)
(***************************************************************************)
\* the most polls of the creation operation that may report "not done"
MaxPolls == 2
\* the number of invocations of the program, one after the other
MaxRuns == 2

Runs == 1..MaxRuns

(***************************************************************************)
(* Go string helpers.                                                      *)
(***************************************************************************)
\* s[from:] with a 0-based offset
Drop(s, from) == SubSeq(s, from + 1, Len(s))

\* s[:to] with a 0-based end offset
Take(s, to) == SubSeq(s, 1, to)

\* strings.HasPrefix
HasPrefix(s, prefix) ==
    /\ Len(s) >= Len(prefix)
    /\ Take(s, Len(prefix)) = prefix

\* strings.TrimPrefix
TrimPrefix(s, prefix) == IF HasPrefix(s, prefix) THEN Drop(s, Len(prefix)) ELSE s

\* a mutant of Index: the offset of the first instance of the first
\* character of sub
IndexOfFirstByte(s, sub) ==
    LET hits == {i \in 0..(Len(s) - 1) : s[i + 1] = sub[1]}
    IN  IF hits = {} THEN -1 ELSE CHOOSE i \in hits : \A k \in hits : i <= k

\* strings.Index: the 0-based offset of the first instance of sub in s, or -1
Index(s, sub) ==
    LET hits == {i \in 0..(Len(s) - Len(sub)) : SubSeq(s, i + 1, i + Len(sub)) = sub}
    IN  IF hits = {} THEN -1 ELSE CHOOSE i \in hits : \A k \in hits : i <= k

UpperLetters ==
    <<"A","B","C","D","E","F","G","H","I","J","K","L","M",
      "N","O","P","Q","R","S","T","U","V","W","X","Y","Z">>

LowerLetters ==
    <<"a","b","c","d","e","f","g","h","i","j","k","l","m",
      "n","o","p","q","r","s","t","u","v","w","x","y","z">>

\* the lower-case mapping of one character
LowerChar(c) ==
    IF \E k \in 1..Len(UpperLetters) : UpperLetters[k] = c
    THEN LowerLetters[CHOOSE k \in 1..Len(UpperLetters) : UpperLetters[k] = c]
    ELSE c

\* strings.ToLower
ToLower(s) == [k \in 1..Len(s) |-> LowerChar(s[k])]

\* a mutant of ReplaceAll: only the first instance is replaced
ReplaceFirstOnly(s, old, new) ==
    LET i == Index(s, old)
    IN  IF i = -1 THEN s ELSE Take(s, i) \o new \o Drop(s, i + Len(old))

RECURSIVE ReplaceAll(_, _, _)
\* strings.ReplaceAll for a non-empty old: the non-overlapping instances of
\* old, found left to right, are replaced by new; new is never rescanned
ReplaceAll(s, old, new) ==
    LET i == Index(s, old)
    IN  IF i = -1
        THEN s
        ELSE Take(s, i) \o new \o ReplaceAll(Drop(s, i + Len(old)), old, new)

(***************************************************************************)
(* The name expander.                                                      *)
(***************************************************************************)
\* the process environment: os.Getenv gives "" for a variable that is unset.
\* USER=Bob, X=${today}, Y=${bogus}, Z=A${ ; every other variable is unset
Environ ==
    (<<"U","S","E","R">> :> <<"B","o","b">>)
        @@ (<<"X">> :> <<"$","{","t","o","d","a","y","}">>)
        @@ (<<"Y">> :> <<"$","{","b","o","g","u","s","}">>)
        @@ (<<"Z">> :> <<"A","$","{">>)

Getenv(varName) == IF varName \in DOMAIN Environ THEN Environ[varName] ELSE <<>>

\* time.Now().Format("20060102") on the day of the runs
Today == <<"2","0","2","4","0","1","0","1">>

RECURSIVE ExpandLoopSkipsUnknown(_, _)
\* a mutant of ExpandLoop: an expression that is neither today nor env.NAME
\* expands to the empty string
ExpandLoopSkipsUnknown(in, out) ==
    LET i == Index(in, <<"$","{">>)
    IN  IF i = -1
        THEN [err |-> "nil", s |-> out \o in, expr |-> <<>>, ins |-> <<in>>]
        ELSE LET out1 == out \o Take(in, i)
                 in1  == Drop(in, i + 2)
                 j    == Index(in1, <<"}">>)
             IN  IF j = -1
                 THEN [err |-> "unclosed substitution", s |-> <<>>, expr |-> <<>>,
                       ins |-> <<in>>]
                 ELSE LET expr == Take(in1, j)
                          in2  == Drop(in1, j + 1)
                          val  == IF expr = <<"t","o","d","a","y">>
                                  THEN Today
                                  ELSE IF HasPrefix(expr, <<"e","n","v",".">>)
                                  THEN Getenv(TrimPrefix(expr, <<"e","n","v",".">>))
                                  ELSE <<>>
                      IN  [ExpandLoopSkipsUnknown(in2, out1 \o val)
                               EXCEPT !.ins = <<in>> \o @]

RECURSIVE ExpandLoopRescans(_, _)
\* a mutant of ExpandLoop: the value of an expression is put in front of the
\* unread input instead of into the builder
ExpandLoopRescans(in, out) ==
    LET i == Index(in, <<"$","{">>)
    IN  IF i = -1
        THEN [err |-> "nil", s |-> out \o in, expr |-> <<>>, ins |-> <<in>>]
        ELSE LET out1 == out \o Take(in, i)
                 in1  == Drop(in, i + 2)
                 j    == Index(in1, <<"}">>)
             IN  IF j = -1
                 THEN [err |-> "unclosed substitution", s |-> <<>>, expr |-> <<>>,
                       ins |-> <<in>>]
                 ELSE LET expr == Take(in1, j)
                          in2  == Drop(in1, j + 1)
                          val  == IF expr = <<"t","o","d","a","y">>
                                  THEN Today
                                  ELSE Getenv(TrimPrefix(expr, <<"e","n","v",".">>))
                      IN  IF expr = <<"t","o","d","a","y">>
                             \/ HasPrefix(expr, <<"e","n","v",".">>)
                          THEN [ExpandLoopRescans(val \o in2, out1)
                                    EXCEPT !.ins = <<in>> \o @]
                          ELSE [err |-> "unrecognized expression", s |-> <<>>,
                                expr |-> expr, ins |-> <<in>>]

RECURSIVE ExpandLoop(_, _)
\* the scan loop of expandProjectName: in is the unread input, out the
\* builder.  The result is [err, s, expr, ins]: s the builder's content,
\* expr the expression an "unrecognized expression" error names, and ins
\* the values in had at the head of each turn of the loop, in order
ExpandLoop(in, out) ==
    LET i == Index(in, <<"$","{">>)
    IN  IF i = -1
        THEN [err |-> "nil", s |-> out \o in, expr |-> <<>>, ins |-> <<in>>]
        ELSE LET out1 == out \o Take(in, i)
                 in1  == Drop(in, i + 2)
                 j    == Index(in1, <<"}">>)
             IN  IF j = -1
                 THEN [err |-> "unclosed substitution", s |-> <<>>, expr |-> <<>>,
                       ins |-> <<in>>]
                 ELSE LET expr == Take(in1, j)
                          in2  == Drop(in1, j + 1)
                          val  == IF expr = <<"t","o","d","a","y">>
                                  THEN Today
                                  ELSE Getenv(TrimPrefix(expr, <<"e","n","v",".">>))
                      IN  IF expr = <<"t","o","d","a","y">>
                             \/ HasPrefix(expr, <<"e","n","v",".">>)
                          THEN [ExpandLoop(in2, out1 \o val) EXCEPT !.ins = <<in>> \o @]
                          ELSE [err |-> "unrecognized expression", s |-> <<>>,
                                expr |-> expr, ins |-> <<in>>]

\* a mutant of expandProjectName: the result is returned as it was built
expandProjectNameNotLowered(pattern) ==
    LET r == ExpandLoop(pattern, <<>>)
        x == [err |-> r.err, s |-> r.s, expr |-> r.expr, pattern |-> pattern,
              ins |-> r.ins]
    IN  IF x.err # "nil" THEN x
        ELSE IF x.s = <<>> THEN [x EXCEPT !.err = "expanded to empty string"]
        ELSE x

\* expandProjectName: [err, s, expr, pattern, ins]; s is the empty string
\* whenever err is not nil, and every error names the pattern
expandProjectName(pattern) ==
    LET r == ExpandLoop(pattern, <<>>)
        x == [err |-> r.err, s |-> r.s, expr |-> r.expr, pattern |-> pattern,
              ins |-> r.ins]
    IN  IF x.err # "nil" THEN x
        ELSE IF x.s = <<>> THEN [x EXCEPT !.err = "expanded to empty string"]
        ELSE [x EXCEPT !.s = ToLower(x.s)]

(***************************************************************************)
(* The configurations and the remote world the runs are checked against.  *)
(***************************************************************************)
\* the placeholder RunSetupCommands replaces
ProjectIdPlaceholder == <<"$","{","P","R","O","J","E","C","T","_","I","D","}">>

\* "echo ${PROJECT_ID}"
CmdEcho == <<"e","c","h","o"," ">> \o ProjectIdPlaceholder

\* "${PROJECT_ID}:${PROJECT_ID}"
CmdTwice == ProjectIdPlaceholder \o <<":">> \o ProjectIdPlaceholder

\* "${today} ${env.USER} ${PROJECT_ID": expander syntax and an unclosed placeholder
CmdOtherSyntax ==
    <<"$","{","t","o","d","a","y","}"," ","$","{","e","n","v",".","U","S","E","R","}"," ">>
        \o SubSeq(ProjectIdPlaceholder, 1, 12)

\* "$${PROJECT_ID}}${project_id}"
CmdNested ==
    <<"$">> \o ProjectIdPlaceholder \o <<"}">>
        \o <<"$","{","p","r","o","j","e","c","t","_","i","d","}">>

\* "true"
CmdPlain == <<"t","r","u","e">>

SetupCommandLists ==
    { <<>>,
      <<CmdEcho>>,
      <<CmdTwice, CmdOtherSyntax>>,
      <<CmdPlain, CmdNested, CmdEcho>> }

BootstrapServices == <<"cloudbilling.googleapis.com">>

ServiceLists ==
    { <<>>,
      <<"compute.googleapis.com">>,
      <<"compute.googleapis.com", "container.googleapis.com">> }

\* "abc-${env.USER}-${today}"
PatternUserToday ==
    <<"a","b","c","-","$","{","e","n","v",".","U","S","E","R","}","-",
      "$","{","t","o","d","a","y","}">>

\* "Tp-1"
PatternLiteral == <<"T","p","-","1">>

\* "x-${bogus}"
PatternBogus == <<"x","-","$","{","b","o","g","u","s","}">>

\* "x-${today"
PatternUnclosed == <<"x","-","$","{","t","o","d","a","y">>

\* "${env.MISSING}"
PatternMissing == <<"$","{","e","n","v",".","M","I","S","S","I","N","G","}">>

NamePatterns ==
    {PatternUserToday, PatternLiteral, PatternBogus, PatternUnclosed, PatternMissing}

ConfiguredBillingAccount == "billingAccounts/A"

Configs ==
    [ NamePattern    : NamePatterns,
      Parent         : {"folders/1"},
      BillingAccount : {ConfiguredBillingAccount},
      Services       : ServiceLists,
      SetupCommands  : SetupCommandLists ]

SeqToSet(s) == {s[k] : k \in 1..Len(s)}

NoBilling == [BillingAccountName |-> "", BillingEnabled |-> FALSE]

\* the billing states a project that exists before the first run may be in
InitialBillingInfos ==
    { NoBilling,
      [BillingAccountName |-> ConfiguredBillingAccount, BillingEnabled |-> TRUE],
      [BillingAccountName |-> ConfiguredBillingAccount, BillingEnabled |-> FALSE],
      [BillingAccountName |-> "billingAccounts/B", BillingEnabled |-> TRUE] }

(***************************************************************************)
(* expandProjectName over a bounded set of patterns: every concatenation   *)
(* of at most MaxPieces pieces.                                            *)
(***************************************************************************)
MaxPieces == 3

\* A  b-  }  $  ${  today}  env.X}  ${env.USER}  ${env.M}  ${bogus}
\* ${a${b}}  ${env.Y}  ${env.Z}
Pieces ==
    { <<"A">>, <<"b","-">>, <<"}">>, <<"$">>, <<"$","{">>,
      <<"t","o","d","a","y","}">>,
      <<"e","n","v",".","X","}">>,
      <<"$","{","e","n","v",".","U","S","E","R","}">>,
      <<"$","{","e","n","v",".","M","}">>,
      <<"$","{","b","o","g","u","s","}">>,
      <<"$","{","a","$","{","b","}","}">>,
      <<"$","{","e","n","v",".","Y","}">>,
      <<"$","{","e","n","v",".","Z","}">> }

RECURSIVE Concat(_)
Concat(ss) == IF ss = <<>> THEN <<>> ELSE Head(ss) \o Concat(Tail(ss))

PiecePatterns ==
    UNION { { Concat(ss) : ss \in [1..n -> Pieces] } : n \in 0..MaxPieces }

\* expandProjectName(config.NamePattern) for every pattern a configuration
\* of the specifications holds, computed once
ExpansionOf == [p \in NamePatterns \cup PiecePatterns |-> expandProjectName(p)]

(***************************************************************************)
(* State.                                                                  *)
(***************************************************************************)
VARIABLES
    config,          \* the Config every run loads
    remoteProject,   \* whether the project exists in the project directory
    remoteBilling,   \* the project's billing info in the billing directory
    remoteServices,  \* the services enabled on the project
    pc,              \* per run: where the run is
    projectName,     \* per run: run()'s projectName
    crmService,      \* per run: ProjectManager.crmService is set
    op,              \* per run: createProject's op
    polls,           \* per run: polls that reported "not done"
    cmdIndex,        \* per run: the next setup command of the range loop
    calls,           \* per run: the external calls issued so far, in order
    atStart,         \* per run: the remote world when the run started
    err,             \* per run: the error run() returned
    exitCode         \* per run: the exit status of the process

remote == <<remoteProject, remoteBilling, remoteServices>>

vars == <<config, remoteProject, remoteBilling, remoteServices, pc, projectName,
          crmService, op, polls, cmdIndex, calls, atStart, err, exitCode>>

\* the nil error
NoError == [msg |-> "nil", detail |-> <<>>]

Error(m) == [msg |-> m, detail |-> <<>>]

NoOp == [Name |-> <<>>, Done |-> FALSE, Error |-> "nil"]

NoSnapshot == [taken |-> FALSE]

Snapshot ==
    [taken |-> TRUE, project |-> remoteProject, billing |-> remoteBilling,
     services |-> remoteServices]

\* one external call: the interface, the step that issued it, the project
\* it names, its argument, whether it failed ("ok" or "err") and what it
\* returned
Call(api, site, project, arg, res, ret) ==
    [api |-> api, site |-> site, project |-> project, arg |-> arg, res |-> res,
     ret |-> ret]

Terminal == {"DONE", "ABORT"}

\* a project can exist before the first run only under a name, so only if
\* the name pattern expands
Init ==
    /\ config \in Configs
    /\ remoteProject \in
           (IF expandProjectName(config.NamePattern).err = "nil" THEN BOOLEAN ELSE {FALSE})
    /\ remoteBilling \in (IF remoteProject THEN InitialBillingInfos ELSE {NoBilling})
    /\ remoteServices \in
           (IF remoteProject
            THEN {{}, SeqToSet(BootstrapServices) \cup SeqToSet(config.Services)}
            ELSE {{}})
    /\ pc = [r \in Runs |-> "idle"]
    /\ projectName = [r \in Runs |-> <<>>]
    /\ crmService = [r \in Runs |-> FALSE]
    /\ op = [r \in Runs |-> NoOp]
    /\ polls = [r \in Runs |-> 0]
    /\ cmdIndex = [r \in Runs |-> 1]
    /\ calls = [r \in Runs |-> <<>>]
    /\ atStart = [r \in Runs |-> NoSnapshot]
    /\ err = [r \in Runs |-> NoError]
    /\ exitCode = [r \in Runs |-> -1]

(***************************************************************************)
(* Helpers of the steps.                                                   *)
(***************************************************************************)
\* main: the exit status for the error run() returned
main(e) == IF e = NoError THEN 0 ELSE 1

\* the step at which each stage of run() begins, in the order run() calls them
StageEntry ==
    <<"getProject", "enableBootstrap", "getBillingInfo", "enableServices", "runSetup">>

\* a mutant of AfterStage: billing is linked before the bootstrap service
\* is enabled
AfterStageBillingFirst(k) ==
    CASE k = 1 -> "getBillingInfo"
      [] k = 3 -> "enableBootstrap"
      [] k = 2 -> "enableServices"
      [] k = 4 -> "runSetup"
      [] OTHER -> "DONE"

\* where run() goes when its stage number k has returned nil
AfterStage(k) == IF k < Len(StageEntry) THEN StageEntry[k + 1] ELSE "DONE"

\* run r returns e from run(), and main exits
Return(r, e) ==
    /\ pc' = [pc EXCEPT ![r] = IF e = NoError THEN "DONE" ELSE "ABORT"]
    /\ err' = [err EXCEPT ![r] = e]
    /\ exitCode' = [exitCode EXCEPT ![r] = main(e)]

\* run r continues at step next; "DONE" is run() returning nil
Goto(r, next) ==
    IF next = "DONE"
    THEN Return(r, NoError)
    ELSE /\ pc' = [pc EXCEPT ![r] = next]
         /\ UNCHANGED <<err, exitCode>>

Issue(r, entries) == calls' = [calls EXCEPT ![r] = @ \o entries]

\* http.StatusNotFound and http.StatusForbidden
StatusNotFound == 404
StatusForbidden == 403

\* the errors Projects.Get may return: a *googleapi.Error with its Code, or
\* an error of another type (whatever status it may carry)
LookupErrors ==
    [IsGoogleapiError : {TRUE}, Code : {StatusNotFound, StatusForbidden, 500}]
        \cup [IsGoogleapiError : {FALSE}, Code : {0, StatusNotFound}]

isNotFound(e) == e.IsGoogleapiError /\ e.Code = StatusNotFound

\* a mutant of isPermissionDenied: the status tested is 401 Unauthorized
isPermissionDeniedUnauthorized(e) == e.IsGoogleapiError /\ e.Code = 401

isPermissionDenied(e) == e.IsGoogleapiError /\ e.Code = StatusForbidden

\* a mutant of AlreadyLinked: the test is inverted
AlreadyLinkedInverted(info, cfg) ==
    ~(info.BillingAccountName = cfg.BillingAccount /\ info.BillingEnabled)

\* a mutant of AlreadyLinked: whether billing is enabled is not looked at
AlreadyLinkedIgnoresEnabled(info, cfg) ==
    info.BillingAccountName = cfg.BillingAccount

\* the check "already linked" of LinkProjectToBillingAccount
AlreadyLinked(info, cfg) ==
    info.BillingAccountName = cfg.BillingAccount /\ info.BillingEnabled

\* the ProjectBillingInfo LinkProjectToBillingAccount sends
ProjectBillingInfo(cfg) ==
    [BillingAccountName |-> cfg.BillingAccount, BillingEnabled |-> TRUE]

\* the command RunSetupCommands hands to bash for a template
ExpandCommand(command, name) == ReplaceAll(command, ProjectIdPlaceholder, name)

\* a mutant of getCloudResourceManagerClient: the handle is constructed at
\* every call
getCloudResourceManagerClientAnew(r, newServiceOk) ==
    [ok |-> newServiceOk,
     constructed |-> <<Call("cloudresourcemanager.NewService", pc[r], <<>>, <<>>,
                            IF newServiceOk THEN "ok" ELSE "err", <<>>)>>]

\* getCloudResourceManagerClient: the memoized handle, or a construction
\* that succeeds or not
getCloudResourceManagerClient(r, newServiceOk) ==
    IF crmService[r]
    THEN [ok |-> TRUE, constructed |-> <<>>]
    ELSE [ok |-> newServiceOk,
          constructed |-> <<Call("cloudresourcemanager.NewService", pc[r], <<>>, <<>>,
                                 IF newServiceOk THEN "ok" ELSE "err", <<>>)>>]

\* the operations Projects.Create or Operations.Get may return: an error
\* payload comes with done, and "not done" is reported at most MaxPolls times
Operations(r) ==
    { o \in [Name : {<<"operations/">> \o projectName[r]}, Done : BOOLEAN,
             Error : {"nil", "status"}] :
          ~o.Done => (o.Error = "nil" /\ polls[r] < MaxPolls) }

(***************************************************************************)
(* The steps of a run.                                                     *)
(***************************************************************************)
\* the program is invoked: the runs of the specification Spec follow one
\* another, and the memory of the process before is gone
StartRun(r) ==
    /\ pc[r] = "idle"
    /\ \A q \in 1..(r - 1) : pc[q] \in Terminal \cup {"exited"}
    /\ pc' = [q \in Runs |-> IF q = r THEN "start" ELSE IF q < r THEN "exited" ELSE pc[q]]
    /\ atStart' = [q \in Runs |-> IF q = r THEN Snapshot ELSE NoSnapshot]
    /\ projectName' = [q \in Runs |-> <<>>]
    /\ crmService' = [q \in Runs |-> FALSE]
    /\ op' = [q \in Runs |-> NoOp]
    /\ polls' = [q \in Runs |-> 0]
    /\ cmdIndex' = [q \in Runs |-> 1]
    /\ calls' = [q \in Runs |-> <<>>]
    /\ err' = [q \in Runs |-> NoError]
    /\ UNCHANGED <<config, remote, exitCode>>

\* run(): the -config flag and loadConfig
LoadConfig(r) ==
    /\ pc[r] = "start"
    /\ \E outcome \in {"no path", "unreadable", "loaded"} :
           CASE outcome = "no path" ->
                    Return(r, Error("config file path must be specified"))
             [] outcome = "unreadable" -> Return(r, Error("error loading config"))
             [] OTHER -> Goto(r, "expand")
    /\ UNCHANGED <<config, remote, projectName, crmService, op, polls, cmdIndex,
                   calls, atStart>>

\* a mutant of ExpandName: the error of expandProjectName is dropped and
\* the run goes on with the empty identifier it returned
ExpandNameKeepsGoing(r) ==
    /\ pc[r] = "expand"
    /\ Goto(r, StageEntry[1])
    /\ projectName' = [projectName EXCEPT ![r] = ExpansionOf[config.NamePattern].s]
    /\ UNCHANGED <<config, remote, crmService, op, polls, cmdIndex, calls, atStart>>

\* run(): expandProjectName(config.NamePattern)
ExpandName(r) ==
    /\ pc[r] = "expand"
    /\ LET x == ExpansionOf[config.NamePattern]
       IN  IF x.err # "nil"
           THEN /\ Return(r, [msg |-> "error expanding project name",
                               detail |-> [err |-> x.err, expr |-> x.expr,
                                           pattern |-> x.pattern]])
                /\ UNCHANGED projectName
           ELSE /\ Goto(r, StageEntry[1])
                /\ projectName' = [projectName EXCEPT ![r] = x.s]
    /\ UNCHANGED <<config, remote, crmService, op, polls, cmdIndex, calls, atStart>>

\* a mutant of GetProject: a project that is found ends the run with success
GetProjectFoundIsDone(r) ==
    /\ pc[r] = "getProject"
    /\ \E newServiceOk \in BOOLEAN :
         LET c == getCloudResourceManagerClient(r, newServiceOk)
         IN  IF ~c.ok
             THEN /\ Issue(r, c.constructed)
                  /\ Return(r, Error("error creating cloudresourcemanager client"))
                  /\ UNCHANGED crmService
             ELSE /\ crmService' = [crmService EXCEPT ![r] = TRUE]
                  /\ \/ /\ remoteProject
                        /\ Issue(r, c.constructed \o
                               <<Call("Projects.Get", pc[r], projectName[r], <<>>, "ok",
                                      "project")>>)
                        /\ Return(r, NoError)
                     \/ \E e \in LookupErrors :
                        /\ isNotFound(e) => ~remoteProject
                        /\ Issue(r, c.constructed \o
                               <<Call("Projects.Get", pc[r], projectName[r], <<>>,
                                      "err", e)>>)
                        /\ IF isNotFound(e) \/ isPermissionDenied(e)
                           THEN Goto(r, "createProject")
                           ELSE Return(r, Error("error getting project"))
    /\ UNCHANGED <<config, remote, projectName, op, polls, cmdIndex, atStart>>

\* EnsureProjectExists: getProject
GetProject(r) ==
    /\ pc[r] = "getProject"
    /\ \E newServiceOk \in BOOLEAN :
         LET c == getCloudResourceManagerClient(r, newServiceOk)
         IN  IF ~c.ok
             THEN /\ Issue(r, c.constructed)
                  /\ Return(r, Error("error creating cloudresourcemanager client"))
                  /\ UNCHANGED crmService
             ELSE /\ crmService' = [crmService EXCEPT ![r] = TRUE]
                  /\ \/ /\ remoteProject
                        /\ Issue(r, c.constructed \o
                               <<Call("Projects.Get", pc[r], projectName[r], <<>>, "ok",
                                      "project")>>)
                        /\ Goto(r, AfterStage(1))
                     \/ \E e \in LookupErrors :
                        /\ isNotFound(e) => ~remoteProject
                        /\ Issue(r, c.constructed \o
                               <<Call("Projects.Get", pc[r], projectName[r], <<>>,
                                      "err", e)>>)
                        /\ IF isNotFound(e) \/ isPermissionDenied(e)
                           THEN Goto(r, "createProject")
                           ELSE Return(r, Error("error getting project"))
    /\ UNCHANGED <<config, remote, projectName, op, polls, cmdIndex, atStart>>

\* a mutant of AfterOperation: the operation is not waited for
AfterOperationNoWait(r, o) ==
    IF o.Done /\ o.Error # "nil"
    THEN /\ Return(r, [msg |-> "error from project creation operation", detail |-> o.Error])
         /\ UNCHANGED remoteProject
    ELSE Goto(r, AfterStage(1)) /\ remoteProject' = TRUE

\* a mutant of AfterOperation: the error payload of a done operation is
\* not looked at
AfterOperationIgnoresError(r, o) ==
    IF ~o.Done
    THEN Goto(r, "pollOperation") /\ UNCHANGED remoteProject
    ELSE Goto(r, AfterStage(1)) /\ remoteProject' = TRUE

\* a mutant of AfterOperation: an operation that is not done is answered
\* by a new creation request
AfterOperationRecreates(r, o) ==
    IF ~o.Done
    THEN Goto(r, "createProject") /\ UNCHANGED remoteProject
    ELSE IF o.Error # "nil"
    THEN /\ Return(r, [msg |-> "error from project creation operation", detail |-> o.Error])
         /\ UNCHANGED remoteProject
    ELSE Goto(r, AfterStage(1)) /\ remoteProject' = TRUE

\* a mutant of AfterOperation: the loop gives up after the second answer
\* "not done"
AfterOperationTimesOut(r, o) ==
    IF ~o.Done
    THEN IF polls[r] >= 1
         THEN /\ Return(r, Error("timed out waiting for project creation"))
              /\ UNCHANGED remoteProject
         ELSE Goto(r, "pollOperation") /\ UNCHANGED remoteProject
    ELSE IF o.Error # "nil"
    THEN /\ Return(r, [msg |-> "error from project creation operation", detail |-> o.Error])
         /\ UNCHANGED remoteProject
    ELSE Goto(r, AfterStage(1)) /\ remoteProject' = TRUE

\* what createProject does with the operation it holds once the loop
\* "for !op.Done" is at its test
AfterOperation(r, o) ==
    IF ~o.Done
    THEN Goto(r, "pollOperation") /\ UNCHANGED remoteProject
    ELSE IF o.Error # "nil"
    THEN /\ Return(r, [msg |-> "error from project creation operation", detail |-> o.Error])
         /\ UNCHANGED remoteProject
    ELSE Goto(r, AfterStage(1)) /\ remoteProject' = TRUE

\* createProject: Projects.Create
CreateProject(r) ==
    /\ pc[r] = "createProject"
    /\ \E newServiceOk \in BOOLEAN :
         LET c == getCloudResourceManagerClient(r, newServiceOk)
         IN  IF ~c.ok
             THEN /\ Issue(r, c.constructed)
                  /\ Return(r, Error("error creating cloudresourcemanager client"))
                  /\ UNCHANGED <<crmService, op, remoteProject>>
             ELSE /\ crmService' = [crmService EXCEPT ![r] = TRUE]
                  /\ \/ /\ Issue(r, c.constructed \o
                               <<Call("Projects.Create", pc[r], projectName[r],
                                      config.Parent, "err", <<>>)>>)
                        /\ Return(r, Error("error creating project"))
                        /\ UNCHANGED <<op, remoteProject>>
                     \/ /\ ~remoteProject
                        /\ \E o \in Operations(r) :
                           /\ Issue(r, c.constructed \o
                                  <<Call("Projects.Create", pc[r], projectName[r],
                                         config.Parent, "ok", o)>>)
                           /\ op' = [op EXCEPT ![r] = o]
                           /\ AfterOperation(r, o)
    /\ UNCHANGED <<config, remoteBilling, remoteServices, projectName, polls, cmdIndex,
                   atStart>>

\* createProject: one turn of the loop, time.Sleep and Operations.Get
PollOperation(r) ==
    /\ pc[r] = "pollOperation"
    /\ \/ /\ Issue(r, <<Call("Operations.Get", pc[r], projectName[r], op[r].Name, "err",
                             <<>>)>>)
          /\ Return(r, Error("error getting operation status"))
          /\ UNCHANGED <<op, polls, remoteProject>>
       \/ \E o \in Operations(r) :
          /\ Issue(r, <<Call("Operations.Get", pc[r], projectName[r], op[r].Name, "ok",
                             o)>>)
          /\ op' = [op EXCEPT ![r] = o]
          /\ polls' = [polls EXCEPT ![r] = IF o.Done THEN @ ELSE @ + 1]
          /\ AfterOperation(r, o)
    /\ UNCHANGED <<config, remoteBilling, remoteServices, projectName, crmService,
                   cmdIndex, atStart>>

\* a mutant of ServicesToEnable: both calls pass the configured list
ServicesToEnableConfigured(site) == config.Services

\* the service list EnableProjectServices is called with at each call site
ServicesToEnable(site) ==
    IF site = "enableBootstrap" THEN BootstrapServices ELSE config.Services

WaitSite(site) == IF site = "enableBootstrap" THEN "waitBootstrap" ELSE "waitServices"

\* EnableProjectServices up to BatchEnableServices, called as stage k of run()
BatchEnable(r, k, site) ==
    /\ pc[r] = site
    /\ \E newClientOk \in BOOLEAN :
         IF ~newClientOk
         THEN /\ Issue(r, <<Call("serviceusage.NewClient", site, <<>>, <<>>, "err", <<>>)>>)
              /\ Return(r, Error("error creating serviceusage client"))
         ELSE IF Len(ServicesToEnable(site)) = 0
         THEN /\ Issue(r, <<Call("serviceusage.NewClient", site, <<>>, <<>>, "ok", <<>>)>>)
              /\ Goto(r, AfterStage(k))
         ELSE \E started \in BOOLEAN :
              /\ Issue(r, <<Call("serviceusage.NewClient", site, <<>>, <<>>, "ok", <<>>),
                            Call("BatchEnableServices", site, projectName[r],
                                 ServicesToEnable(site),
                                 IF started THEN "ok" ELSE "err", <<>>)>>)
              /\ IF started
                 THEN Goto(r, WaitSite(site))
                 ELSE Return(r, Error("error starting batch enable services operation"))
    /\ UNCHANGED <<config, remote, projectName, crmService, op, polls, cmdIndex, atStart>>

\* EnableProjectServices: op.Wait
WaitEnable(r, k, site) ==
    /\ pc[r] = WaitSite(site)
    /\ \E completed \in BOOLEAN :
         /\ Issue(r, <<Call("BatchEnableServices.Wait", site, projectName[r],
                            ServicesToEnable(site),
                            IF completed THEN "ok" ELSE "err", <<>>)>>)
         /\ IF completed
            THEN /\ Goto(r, AfterStage(k))
                 /\ remoteServices' = remoteServices \cup SeqToSet(ServicesToEnable(site))
            ELSE /\ Return(r, Error("error waiting for batch enable services operation"))
                 /\ UNCHANGED remoteServices
    /\ UNCHANGED <<config, remoteProject, remoteBilling, projectName, crmService, op,
                   polls, cmdIndex, atStart>>

EnableBootstrap(r) == BatchEnable(r, 2, "enableBootstrap")

WaitBootstrap(r) == WaitEnable(r, 2, "enableBootstrap")

EnableServices(r) == BatchEnable(r, 4, "enableServices")

WaitServices(r) == WaitEnable(r, 4, "enableServices")

\* LinkProjectToBillingAccount up to the check "already linked"
GetBillingInfo(r) ==
    /\ pc[r] = "getBillingInfo"
    /\ \E newServiceOk \in BOOLEAN :
         IF ~newServiceOk
         THEN /\ Issue(r, <<Call("cloudbilling.NewService", pc[r], projectName[r], <<>>,
                                 "err", <<>>)>>)
              /\ Return(r, Error("error creating cloudbilling client"))
         ELSE \E fetched \in BOOLEAN :
              /\ Issue(r, <<Call("cloudbilling.NewService", pc[r], projectName[r], <<>>,
                                 "ok", <<>>),
                            Call("GetBillingInfo", pc[r], projectName[r], <<>>,
                                 IF fetched THEN "ok" ELSE "err",
                                 IF fetched THEN remoteBilling ELSE <<>>)>>)
              /\ IF ~fetched
                 THEN Return(r, Error("error getting current billing info"))
                 ELSE IF AlreadyLinked(remoteBilling, config)
                 THEN Goto(r, AfterStage(3))
                 ELSE Goto(r, "updateBillingInfo")
    /\ UNCHANGED <<config, remote, projectName, crmService, op, polls, cmdIndex, atStart>>

\* LinkProjectToBillingAccount: UpdateBillingInfo
UpdateBillingInfo(r) ==
    /\ pc[r] = "updateBillingInfo"
    /\ \E updated \in BOOLEAN :
         /\ Issue(r, <<Call("UpdateBillingInfo", pc[r], projectName[r],
                            ProjectBillingInfo(config),
                            IF updated THEN "ok" ELSE "err", <<>>)>>)
         /\ IF updated
            THEN /\ Goto(r, AfterStage(3))
                 /\ remoteBilling' = ProjectBillingInfo(config)
            ELSE /\ Return(r, Error("error linking project to billing account"))
                 /\ UNCHANGED remoteBilling
    /\ UNCHANGED <<config, remoteProject, remoteServices, projectName, crmService, op,
                   polls, cmdIndex, atStart>>

\* a mutant of AfterCommand: the failure of a command is passed over
AfterCommandContinues(r, expandedCommand, exited) ==
    /\ cmdIndex' = [cmdIndex EXCEPT ![r] = @ + 1]
    /\ IF cmdIndex[r] = Len(config.SetupCommands)
       THEN Goto(r, AfterStage(5))
       ELSE Goto(r, "runSetup")

\* RunSetupCommands: what the range loop does once cmd.Run() has returned
AfterCommand(r, expandedCommand, exited) ==
    IF exited # 0
    THEN /\ Return(r, [msg |-> "error running setup command", detail |-> expandedCommand])
         /\ UNCHANGED cmdIndex
    ELSE /\ cmdIndex' = [cmdIndex EXCEPT ![r] = @ + 1]
         /\ IF cmdIndex[r] = Len(config.SetupCommands)
            THEN Goto(r, AfterStage(5))
            ELSE Goto(r, "runSetup")

\* RunSetupCommands: the length test, or one turn of the range loop
RunSetupCommands(r) ==
    /\ pc[r] = "runSetup"
    /\ IF Len(config.SetupCommands) = 0
       THEN /\ Goto(r, AfterStage(5))
            /\ UNCHANGED <<calls, cmdIndex>>
       ELSE LET expandedCommand ==
                    ExpandCommand(config.SetupCommands[cmdIndex[r]], projectName[r])
            IN  \E exited \in {0, 1} :
                /\ Issue(r, <<Call("exec", pc[r], projectName[r], expandedCommand,
                                   IF exited = 0 THEN "ok" ELSE "err", exited)>>)
                /\ AfterCommand(r, expandedCommand, exited)
    /\ UNCHANGED <<config, remote, projectName, crmService, op, polls, atStart>>

Next ==
    \E r \in Runs :
        \/ StartRun(r)
        \/ LoadConfig(r)
        \/ ExpandName(r)
        \/ GetProject(r)
        \/ CreateProject(r)
        \/ PollOperation(r)
        \/ EnableBootstrap(r)
        \/ WaitBootstrap(r)
        \/ GetBillingInfo(r)
        \/ UpdateBillingInfo(r)
        \/ EnableServices(r)
        \/ WaitServices(r)
        \/ RunSetupCommands(r)

Spec == Init /\ [][Next]_vars

(***************************************************************************)
(* The run that stops after the name expansion.                            *)
(***************************************************************************)
InitExpand ==
    /\ config \in [ NamePattern    : PiecePatterns,
                    Parent         : {"folders/1"},
                    BillingAccount : {ConfiguredBillingAccount},
                    Services       : {<<>>},
                    SetupCommands  : {<<>>} ]
    /\ remoteProject = FALSE
    /\ remoteBilling = NoBilling
    /\ remoteServices = {}
    /\ pc = [r \in Runs |-> "idle"]
    /\ projectName = [r \in Runs |-> <<>>]
    /\ crmService = [r \in Runs |-> FALSE]
    /\ op = [r \in Runs |-> NoOp]
    /\ polls = [r \in Runs |-> 0]
    /\ cmdIndex = [r \in Runs |-> 1]
    /\ calls = [r \in Runs |-> <<>>]
    /\ atStart = [r \in Runs |-> NoSnapshot]
    /\ err = [r \in Runs |-> NoError]
    /\ exitCode = [r \in Runs |-> -1]

NextExpand == StartRun(1) \/ LoadConfig(1) \/ ExpandName(1)

SpecExpand == InitExpand /\ [][NextExpand]_vars

(***************************************************************************)
(* The runs under fairness: a run that has started is not left waiting     *)
(* forever, every remote call and every setup command returns.  That an    *)
(* operation reports done in the end is the cap MaxPolls of Operations.    *)
(***************************************************************************)
Step(r) ==
    \/ LoadConfig(r)
    \/ ExpandName(r)
    \/ GetProject(r)
    \/ CreateProject(r)
    \/ PollOperation(r)
    \/ EnableBootstrap(r)
    \/ WaitBootstrap(r)
    \/ GetBillingInfo(r)
    \/ UpdateBillingInfo(r)
    \/ EnableServices(r)
    \/ WaitServices(r)
    \/ RunSetupCommands(r)

SpecLive == Init /\ [][Next]_vars /\ \A r \in Runs : WF_vars(Step(r))

(***************************************************************************)
(* Two invocations of the program at the same time, with the same          *)
(* configuration and so the same project identifier: each is a process of  *)
(* its own, and their remote calls interleave in any order.                *)
(***************************************************************************)
Racers == {1, 2}

InitRace ==
    /\ config \in { c \in Configs : /\ c.NamePattern = PatternLiteral
                                    /\ c.Services = <<"compute.googleapis.com">>
                                    /\ c.SetupCommands = <<CmdEcho>> }
    /\ remoteProject \in BOOLEAN
    /\ remoteBilling = NoBilling
    /\ remoteServices = {}
    /\ pc = [r \in Runs |-> "idle"]
    /\ projectName = [r \in Runs |-> <<>>]
    /\ crmService = [r \in Runs |-> FALSE]
    /\ op = [r \in Runs |-> NoOp]
    /\ polls = [r \in Runs |-> 0]
    /\ cmdIndex = [r \in Runs |-> 1]
    /\ calls = [r \in Runs |-> <<>>]
    /\ atStart = [r \in Runs |-> NoSnapshot]
    /\ err = [r \in Runs |-> NoError]
    /\ exitCode = [r \in Runs |-> -1]

\* the program is invoked while another invocation may be running
StartRace(r) ==
    /\ pc[r] = "idle"
    /\ pc' = [pc EXCEPT ![r] = "start"]
    /\ atStart' = [atStart EXCEPT ![r] = Snapshot]
    /\ UNCHANGED <<config, remote, projectName, crmService, op, polls, cmdIndex, calls,
                   err, exitCode>>

NextRace == \E r \in Racers : StartRace(r) \/ Step(r)

SpecRace == InitRace /\ [][NextRace]_vars

(***************************************************************************)
(* Reading the calls of a run.                                             *)
(***************************************************************************)
\* the stage of run() a call site belongs to
StageOfSite(site) ==
    CASE site \in {"getProject", "createProject", "pollOperation"} -> 1
      [] site = "enableBootstrap" -> 2
      [] site \in {"getBillingInfo", "updateBillingInfo"} -> 3
      [] site = "enableServices" -> 4
      [] OTHER -> 5

\* the positions of the calls of an interface in the log of run r
At(r, api) == {k \in 1..Len(calls[r]) : calls[r][k].api = api}

\* a lookup error that stands for "the project does not exist"
MeansAbsent(c) ==
    /\ c.api = "Projects.Get"
    /\ c.res = "err"
    /\ c.ret.IsGoogleapiError
    /\ c.ret.Code \in {404, 403}

\* an observation of the creation operation that is done with an error payload
OperationFailed(c) ==
    /\ c.api \in {"Projects.Create", "Operations.Get"}
    /\ c.res = "ok"
    /\ c.ret.Done
    /\ c.ret.Error # "nil"

\* a call whose outcome makes its stage return an error
StageFailed(c) == (c.res = "err" /\ ~MeansAbsent(c)) \/ OperationFailed(c)

(***************************************************************************)
(* C1: a run drives ENSURE_PROJECT, the bootstrap enable, LINK_BILLING,    *)
(* ENABLE_SERVICES and RUN_SETUP in this order and skips none; a call that *)
(* makes its stage fail is the last call of the run, which ends in ABORT   *)
(* with a non-zero exit status; no call is issued twice from the same      *)
(* place except the poll and the setup commands; and a run ends in DONE    *)
(* with exit status 0 only with every stage passed and no failed call.     *)
(***************************************************************************)
C1_FixedOrderFailFast ==
    \A r \in Runs :
        LET log == calls[r]
            n   == Len(log)
        IN  /\ \A k \in 1..n : \A l \in k..n :
                   StageOfSite(log[k].site) <= StageOfSite(log[l].site)
            /\ \A k \in 1..n :
                   StageOfSite(log[k].site) > 1 =>
                       \E j \in 1..(k - 1) :
                           StageOfSite(log[j].site) = StageOfSite(log[k].site) - 1
            /\ \A k \in 1..n : StageFailed(log[k]) => (k = n /\ pc[r] = "ABORT")
            /\ \A k \in 1..n : \A l \in (k + 1)..n :
                   (log[k].api = log[l].api /\ log[k].site = log[l].site)
                       => log[k].api \in {"Operations.Get", "exec"}
            /\ pc[r] = "ABORT" =>
                   /\ exitCode[r] # 0
                   /\ err[r] # NoError
                   /\ n > 0 => StageFailed(log[n])
            /\ pc[r] = "DONE" =>
                   /\ exitCode[r] = 0
                   /\ err[r] = NoError
                   /\ \A s \in 1..4 : \E k \in 1..n : StageOfSite(log[k].site) = s
                   /\ Cardinality(At(r, "exec")) = Len(config.SetupCommands)
            /\ pc[r] \notin Terminal \cup {"exited"} => exitCode[r] = -1

\* a run aborted by a failed billing update, with services and setup
\* commands still to come
C1_Witness ==
    \E r \in Runs :
        /\ pc[r] = "ABORT"
        /\ exitCode[r] = 1
        /\ Len(calls[r]) > 0
        /\ calls[r][Len(calls[r])].api = "UpdateBillingInfo"
        /\ config.Services # <<>>
        /\ config.SetupCommands # <<>>

\* the project exists, is linked to the configured billing account with
\* billing enabled, and has the bootstrap and the configured services enabled
Provisioned(project, billing, services) ==
    /\ project
    /\ billing = [BillingAccountName |-> config.BillingAccount, BillingEnabled |-> TRUE]
    /\ (SeqToSet(BootstrapServices) \cup SeqToSet(config.Services)) \subseteq services

ProvisionedAtStart(r) ==
    /\ atStart[r].taken
    /\ Provisioned(atStart[r].project, atStart[r].billing, atStart[r].services)

\* so far no call of run r failed, and its configuration was loaded
NothingFailed(r) ==
    /\ \A k \in 1..Len(calls[r]) : calls[r][k].res = "ok"
    /\ err[r].msg \notin {"config file path must be specified", "error loading config"}

\* the batch-enable requests run r issued from a call site
BatchRequests(r, site) ==
    {k \in At(r, "BatchEnableServices") : calls[r][k].site = site}

(***************************************************************************)
(* C2 as stated: a run against a project that is already provisioned, in   *)
(* which nothing fails, succeeds and issues no creation request, no        *)
(* billing update and no batch-enable request.                             *)
(***************************************************************************)
C2_Original ==
    \A r \in Runs :
        (ProvisionedAtStart(r) /\ NothingFailed(r)) =>
            /\ pc[r] \in Terminal => pc[r] = "DONE"
            /\ At(r, "Projects.Create") = {}
            /\ At(r, "UpdateBillingInfo") = {}
            /\ At(r, "BatchEnableServices") = {}

(***************************************************************************)
(* C2 amended: a run against a project that is already provisioned, in     *)
(* which nothing fails, succeeds, issues no creation request and no        *)
(* billing update and leaves the remote state as it found it; it does      *)
(* issue the batch-enable request of the bootstrap service and, for a      *)
(* non-empty configured list, the one of the configured services.  A run   *)
(* that ends in DONE leaves the project provisioned, so this holds for the *)
(* run after a successful run.                                             *)
(***************************************************************************)
C2_Idempotence ==
    \A r \in Runs :
        /\ (ProvisionedAtStart(r) /\ NothingFailed(r)) =>
               /\ pc[r] \in Terminal => pc[r] = "DONE"
               /\ At(r, "Projects.Create") = {}
               /\ At(r, "UpdateBillingInfo") = {}
               /\ remoteProject = atStart[r].project
               /\ remoteBilling = atStart[r].billing
               /\ remoteServices = atStart[r].services
               /\ pc[r] = "DONE" =>
                      /\ Cardinality(BatchRequests(r, "enableBootstrap")) = 1
                      /\ Cardinality(BatchRequests(r, "enableServices")) =
                             (IF config.Services = <<>> THEN 0 ELSE 1)
        /\ pc[r] = "DONE" => Provisioned(remoteProject, remoteBilling, remoteServices)

\* a second run, after a first run that exited 0, ends in DONE having
\* found the project provisioned
C2_Witness ==
    \E r \in Runs :
        /\ r > 1
        /\ exitCode[r - 1] = 0
        /\ pc[r] = "DONE"
        /\ ProvisionedAtStart(r)
        /\ NothingFailed(r)
        /\ config.Services # <<>>
        /\ config.SetupCommands # <<>>

\* the lookup of run r returned a googleapi error with status 404
LookupNotFound(r) ==
    \E k \in At(r, "Projects.Get") :
        /\ calls[r][k].res = "err"
        /\ calls[r][k].ret.IsGoogleapiError
        /\ calls[r][k].ret.Code = 404

\* the positions at which run r was handed the creation operation
Observations(r) ==
    {k \in At(r, "Projects.Create") \cup At(r, "Operations.Get") : calls[r][k].res = "ok"}

\* run r has left ENSURE_PROJECT with success
PastEnsure(r) ==
    \/ pc[r] \in {"enableBootstrap", "waitBootstrap", "getBillingInfo",
                  "updateBillingInfo", "enableServices", "waitServices", "runSetup",
                  "DONE"}
    \/ \E k \in 1..Len(calls[r]) : StageOfSite(calls[r][k].site) > 1

\* the last call run r issued in ENSURE_PROJECT
LastOfEnsure(r) ==
    LET ks == {k \in 1..Len(calls[r]) : StageOfSite(calls[r][k].site) = 1}
    IN  CHOOSE k \in ks : \A j \in ks : j <= k

(***************************************************************************)
(* C3: after a lookup that returned "not found", a run issues one creation *)
(* request; every poll follows an observation of the operation that was    *)
(* not done and asks for that operation; while the last observation is not *)
(* done the run is polling; a creation request answered by a done          *)
(* operation is followed by no poll; and the run leaves ENSURE_PROJECT     *)
(* with success only with its last call there an observation that is done  *)
(* and carries no error.                                                   *)
(***************************************************************************)
C3_CreateThenPollUntilDone ==
    \A r \in Runs :
        LookupNotFound(r) =>
            LET log == calls[r]
                n   == Len(log)
            IN  /\ Cardinality(At(r, "Projects.Create")) =
                       (IF pc[r] = "createProject" THEN 0 ELSE 1)
                /\ \A k \in At(r, "Operations.Get") :
                       /\ k - 1 \in Observations(r)
                       /\ ~log[k - 1].ret.Done
                       /\ log[k].arg = log[k - 1].ret.Name
                /\ pc[r] = "pollOperation" <=> (n \in Observations(r) /\ ~log[n].ret.Done)
                /\ \A k \in At(r, "Projects.Create") :
                       (log[k].res = "ok" /\ log[k].ret.Done) => At(r, "Operations.Get") = {}
                /\ PastEnsure(r) =>
                       /\ LastOfEnsure(r) \in Observations(r)
                       /\ log[LastOfEnsure(r)].ret.Done
                       /\ log[LastOfEnsure(r)].ret.Error = "nil"

\* a run that polled twice after "not found" and then left ENSURE_PROJECT
C3_Witness ==
    \E r \in Runs :
        /\ LookupNotFound(r)
        /\ Cardinality(At(r, "Operations.Get")) = 2
        /\ pc[r] = "enableBootstrap"

\* a creation request follows a lookup that stood for "absent", and none
\* is issued in a run whose lookup found the project
CreationGated(r) ==
    /\ \A k \in At(r, "Projects.Create") :
           \E j \in 1..(k - 1) : MeansAbsent(calls[r][j])
    /\ (\E j \in At(r, "Projects.Get") : calls[r][j].res = "ok")
           => At(r, "Projects.Create") = {}

(***************************************************************************)
(* C4 as stated: every run (here: every run that ends in DONE) makes       *)
(* exactly one creation attempt, and the attempt is gated by the lookup.   *)
(***************************************************************************)
C4_Original ==
    \A r \in Runs :
        /\ pc[r] = "DONE" => Cardinality(At(r, "Projects.Create")) = 1
        /\ CreationGated(r)

(***************************************************************************)
(* C4 amended: a run makes at most one creation attempt, gated by the      *)
(* lookup: none before a lookup has failed with "not found" or "permission *)
(* denied", none in a run whose lookup found the project, and exactly one  *)
(* once such a lookup has been acted on.                                   *)
(***************************************************************************)
C4_AtMostOneCreation ==
    \A r \in Runs :
        /\ Cardinality(At(r, "Projects.Create")) <= 1
        /\ CreationGated(r)
        /\ ((\E j \in 1..Len(calls[r]) : MeansAbsent(calls[r][j]))
                /\ pc[r] # "createProject")
               => Cardinality(At(r, "Projects.Create")) = 1

\* a run that ended in DONE after one creation request whose operation was
\* done at once
C4_Witness ==
    \E r \in Runs :
        /\ pc[r] = "DONE"
        /\ Cardinality(At(r, "Projects.Create")) = 1
        /\ At(r, "Operations.Get") = {}

(***************************************************************************)
(* C5: a lookup that fails with a googleapi error of status 404 or 403 is  *)
(* followed by the creation request; a lookup that fails in any other way  *)
(* is the last call of the run, which is in ABORT with the lookup error    *)
(* and has issued no creation request.                                     *)
(***************************************************************************)
C5_LookupClassification ==
    \A r \in Runs :
        \A k \in At(r, "Projects.Get") :
            LET log == calls[r]
                n   == Len(log)
            IN  log[k].res = "err" =>
                    IF log[k].ret.IsGoogleapiError /\ log[k].ret.Code \in {404, 403}
                    THEN /\ err[r].msg # "error getting project"
                         /\ IF k = n
                            THEN pc[r] = "createProject"
                            ELSE log[k + 1].api = "Projects.Create"
                    ELSE /\ k = n
                         /\ pc[r] = "ABORT"
                         /\ err[r].msg = "error getting project"
                         /\ At(r, "Projects.Create") = {}

\* a lookup that failed with status 403 and the creation request after it
C5_Witness ==
    \E r \in Runs :
        \E k \in At(r, "Projects.Get") :
            /\ calls[r][k].res = "err"
            /\ calls[r][k].ret.IsGoogleapiError
            /\ calls[r][k].ret.Code = 403
            /\ k < Len(calls[r])
            /\ calls[r][k + 1].api = "Projects.Create"

(***************************************************************************)
(* C6: a poll that fails is the last call of its run, which is in ABORT    *)
(* with the poll error; an observation of the operation that is done with  *)
(* an error payload is the last call of its run, which is in ABORT with    *)
(* that payload; such a run has issued no billing, service-enable or       *)
(* setup call.                                                             *)
(***************************************************************************)
C6_PollFailureAborts ==
    \A r \in Runs :
        LET log == calls[r]
            n   == Len(log)
        IN  \A k \in 1..n :
                /\ (log[k].api = "Operations.Get" /\ log[k].res = "err") =>
                       /\ k = n
                       /\ pc[r] = "ABORT"
                       /\ err[r].msg = "error getting operation status"
                       /\ \A l \in 1..n : StageOfSite(log[l].site) = 1
                /\ OperationFailed(log[k]) =>
                       /\ k = n
                       /\ pc[r] = "ABORT"
                       /\ err[r] = [msg |-> "error from project creation operation",
                                    detail |-> log[k].ret.Error]
                       /\ \A l \in 1..n : StageOfSite(log[l].site) = 1

\* a run aborted by a poll that returned the operation done with an error
C6_Witness ==
    \E r \in Runs :
        /\ pc[r] = "ABORT"
        /\ Len(calls[r]) > 0
        /\ calls[r][Len(calls[r])].api = "Operations.Get"
        /\ OperationFailed(calls[r][Len(calls[r])])

\* fetched billing info that has the configured account with billing enabled
Linked(info) ==
    info.BillingAccountName = config.BillingAccount /\ info.BillingEnabled

\* LINK_BILLING of run r has succeeded
LinkSucceeded(r) ==
    \E k \in 1..Len(calls[r]) :
        /\ calls[r][k].res = "ok"
        /\ \/ calls[r][k].api = "UpdateBillingInfo"
           \/ calls[r][k].api = "GetBillingInfo" /\ Linked(calls[r][k].ret)

(***************************************************************************)
(* C7: a billing update is issued exactly when the billing info fetched    *)
(* does not have both the configured account and billing enabled, right    *)
(* after the fetch; it carries the configured account with billing         *)
(* enabled; a failed fetch or update is the last call of the run, which is *)
(* in ABORT; and once LINK_BILLING has succeeded the project's billing     *)
(* account is the configured one with billing enabled.                     *)
(***************************************************************************)
C7_LinkBilling ==
    \A r \in Runs :
        LET log == calls[r]
            n   == Len(log)
        IN  /\ \A k \in At(r, "GetBillingInfo") :
                   IF log[k].res = "err"
                   THEN /\ k = n
                        /\ pc[r] = "ABORT"
                        /\ err[r].msg = "error getting current billing info"
                   ELSE IF Linked(log[k].ret)
                   THEN /\ At(r, "UpdateBillingInfo") = {}
                        /\ k = n => pc[r] = "enableServices"
                   ELSE IF k = n
                   THEN pc[r] = "updateBillingInfo"
                   ELSE log[k + 1].api = "UpdateBillingInfo"
            /\ \A k \in At(r, "UpdateBillingInfo") :
                   /\ k - 1 \in At(r, "GetBillingInfo")
                   /\ log[k - 1].res = "ok"
                   /\ log[k].project = projectName[r]
                   /\ log[k].arg = [BillingAccountName |-> config.BillingAccount,
                                    BillingEnabled |-> TRUE]
                   /\ log[k].res = "err" =>
                          /\ k = n
                          /\ pc[r] = "ABORT"
                          /\ err[r].msg = "error linking project to billing account"
                   /\ (log[k].res = "ok" /\ k = n) => pc[r] = "enableServices"
            /\ Cardinality(At(r, "UpdateBillingInfo")) <= 1
            /\ LinkSucceeded(r) =>
                   remoteBilling = [BillingAccountName |-> config.BillingAccount,
                                    BillingEnabled |-> TRUE]

\* a project found linked to another account, and the update that relinked it
C7_Witness ==
    \E r \in Runs :
        \E k \in At(r, "UpdateBillingInfo") :
            /\ calls[r][k].res = "ok"
            /\ calls[r][k - 1].ret.BillingAccountName = "billingAccounts/B"
            /\ remoteBilling.BillingAccountName = config.BillingAccount

\* the bootstrap service list, as the claim names it
BootstrapList == <<"cloudbilling.googleapis.com">>

(***************************************************************************)
(* C8: every billing call of a run comes after the batch-enable request of *)
(* the one bootstrap service cloudbilling.googleapis.com and after the     *)
(* successful wait for its operation; the configured services are enabled  *)
(* by at most one batch request, which carries the whole list, comes after *)
(* the billing link has succeeded and before every setup command; and with *)
(* a non-empty list every setup command comes after the successful wait    *)
(* for that request.                                                       *)
(***************************************************************************)
C8_EnableOrder ==
    \A r \in Runs :
        LET log == calls[r]
            n   == Len(log)
        IN  /\ \A k \in 1..n :
                   StageOfSite(log[k].site) = 3 =>
                       \E j \in 1..(k - 1) :
                           /\ log[j].api = "BatchEnableServices.Wait"
                           /\ log[j].site = "enableBootstrap"
                           /\ log[j].res = "ok"
                           /\ log[j - 1].api = "BatchEnableServices"
                           /\ log[j - 1].res = "ok"
                           /\ log[j - 1].arg = BootstrapList
                           /\ log[j - 1].project = projectName[r]
            /\ \A k \in BatchRequests(r, "enableBootstrap") : log[k].arg = BootstrapList
            /\ At(r, "BatchEnableServices") =
                   BatchRequests(r, "enableBootstrap") \cup BatchRequests(r, "enableServices")
            /\ Cardinality(BatchRequests(r, "enableBootstrap")) <= 1
            /\ Cardinality(BatchRequests(r, "enableServices")) <= 1
            /\ \A k \in BatchRequests(r, "enableServices") :
                   /\ log[k].arg = config.Services
                   /\ log[k].arg # <<>>
                   /\ log[k].project = projectName[r]
                   /\ \E j \in 1..(k - 1) :
                          /\ log[j].res = "ok"
                          /\ \/ log[j].api = "UpdateBillingInfo"
                             \/ log[j].api = "GetBillingInfo" /\ Linked(log[j].ret)
                   /\ \A j \in At(r, "exec") : k < j
            /\ \A k \in At(r, "exec") :
                   config.Services # <<>> =>
                       \E j \in 1..(k - 1) :
                           /\ log[j].api = "BatchEnableServices.Wait"
                           /\ log[j].site = "enableServices"
                           /\ log[j].res = "ok"
                           /\ log[j].arg = config.Services

\* a run that relinked billing, enabled two configured services and ran a
\* setup command
C8_Witness ==
    \E r \in Runs :
        /\ At(r, "exec") # {}
        /\ At(r, "UpdateBillingInfo") # {}
        /\ Len(config.Services) = 2

\* the setup commands run r executed, in order
Executed(r) == SelectSeq(calls[r], LAMBDA c : c.api = "exec")

(***************************************************************************)
(* C9: the commands a run executed are the first commands of the           *)
(* configured list, in the declared order; every one but the last exited   *)
(* zero; a command that exited non-zero is the last one executed and the   *)
(* run is in ABORT with the setup-command error naming the expanded        *)
(* command; a run is in DONE only with every command executed; and an      *)
(* empty list executes nothing and raises no setup-command error.          *)
(***************************************************************************)
C9_SetupCommandsInOrder ==
    \A r \in Runs :
        LET done == Executed(r)
            cmds == config.SetupCommands
        IN  /\ Len(done) <= Len(cmds)
            /\ \A j \in 1..Len(done) :
                   /\ done[j].arg = ExpandCommand(cmds[j], projectName[r])
                   /\ j < Len(done) => done[j].res = "ok"
                   /\ done[j].res = "err" =>
                          /\ j = Len(done)
                          /\ pc[r] = "ABORT"
                          /\ err[r] = [msg |-> "error running setup command",
                                       detail |-> done[j].arg]
            /\ pc[r] = "runSetup" => (cmdIndex[r] = Len(done) + 1 /\ Len(done) <= Len(cmds))
            /\ (pc[r] = "runSetup" /\ cmds # <<>>) => Len(done) < Len(cmds)
            /\ pc[r] = "DONE" =>
                   /\ Len(done) = Len(cmds)
                   /\ \A j \in 1..Len(done) : done[j].res = "ok"
            /\ cmds = <<>> =>
                   /\ done = <<>>
                   /\ err[r].msg # "error running setup command"

\* the second of three commands exited non-zero: the run is in ABORT and
\* the third was not executed
C9_Witness ==
    \E r \in Runs :
        /\ Len(config.SetupCommands) = 3
        /\ Len(Executed(r)) = 2
        /\ Executed(r)[2].res = "err"
        /\ pc[r] = "ABORT"

\* the text "${PROJECT_ID}", as the claim names it
PlaceholderText == <<"$","{","P","R","O","J","E","C","T","_","I","D","}">>

\* x is template t with every instance of "${PROJECT_ID}" replaced by name
\* and nothing else changed: the characters outside the instances are those
\* of t, in place, and each instance has become name
IsExpansion(t, name, x) ==
    LET w          == Len(PlaceholderText)
        occ        == {i \in 1..(Len(t) - w + 1) : SubSeq(t, i, i + w - 1) = PlaceholderText}
        covered(p) == \E i \in occ : i <= p /\ p <= i + w - 1
        shift(p)   == Cardinality({i \in occ : i + w - 1 < p}) * (Len(name) - w)
    IN  /\ Len(x) = Len(t) + Cardinality(occ) * (Len(name) - w)
        /\ \A p \in 1..Len(t) : ~covered(p) => x[p + shift(p)] = t[p]
        /\ \A i \in occ : SubSeq(x, i + shift(i), i + shift(i) + Len(name) - 1) = name

\* "abc-bob-20240101"
NameAbcBob ==
    <<"a","b","c","-","b","o","b","-","2","0","2","4","0","1","0","1">>

(***************************************************************************)
(* C10: every executed command is its template with every instance of      *)
(* ${PROJECT_ID} replaced by the project identifier of the run and nothing *)
(* else changed; a template without an instance, ${today} or ${env.NAME}   *)
(* in it or not, is executed as it is; and "echo ${PROJECT_ID}" with the   *)
(* identifier "abc-bob-20240101" executes "echo abc-bob-20240101".         *)
(***************************************************************************)
C10_CommandExpansion ==
    \A r \in Runs :
        \A j \in 1..Len(Executed(r)) :
            LET t == config.SetupCommands[j]
                x == Executed(r)[j].arg
            IN  /\ IsExpansion(t, projectName[r], x)
                /\ (\A i \in 1..(Len(t) - 12) : SubSeq(t, i, i + 12) # PlaceholderText)
                       => x = t
                /\ (t = <<"e","c","h","o"," ">> \o PlaceholderText
                        /\ projectName[r] = NameAbcBob)
                       => x = <<"e","c","h","o"," ">> \o NameAbcBob

\* "echo abc-bob-20240101" was executed
C10_Witness ==
    \E r \in Runs :
        \E j \in 1..Len(Executed(r)) :
            /\ config.SetupCommands[j] = <<"e","c","h","o"," ">> \o PlaceholderText
            /\ Executed(r)[j].arg = <<"e","c","h","o"," ">> \o NameAbcBob

(***************************************************************************)
(* Reading the outcome of the name expansion of a run.                     *)
(***************************************************************************)
Pattern == config.NamePattern

\* the run is past expandProjectName
ExpansionDone(r) ==
    /\ pc[r] \notin {"idle", "start", "expand", "exited"}
    /\ err[r].msg \notin {"config file path must be specified", "error loading config"}

ExpansionFailed(r) ==
    /\ ExpansionDone(r)
    /\ pc[r] = "ABORT"
    /\ err[r].msg = "error expanding project name"

ExpansionSucceeded(r) == ExpansionDone(r) /\ ~ExpansionFailed(r)

\* there is a "${" at offset i of p (1-based)
MarkerAt(p, i) == i \in 1..(Len(p) - 1) /\ p[i] = "$" /\ p[i + 1] = "{"

NoMarkers(p) == \A i \in 1..Len(p) : ~MarkerAt(p, i)

\* the claim as stated: every pattern without a marker expands to itself,
\* lowercased
C11_Original ==
    \A r \in Runs :
        (ExpansionDone(r) /\ NoMarkers(Pattern))
            => /\ ExpansionSucceeded(r)
               /\ projectName[r] = ToLower(Pattern)

(***************************************************************************)
(* C11: a non-empty pattern without "${" expands to itself lowercased, a   *)
(* stray "}" or "$" included; the empty pattern has no marker either and   *)
(* fails with the empty-expansion error.                                   *)
(***************************************************************************)
C11_LiteralPatterns ==
    \A r \in Runs :
        (ExpansionDone(r) /\ NoMarkers(Pattern))
            => IF Pattern = <<>>
               THEN /\ ExpansionFailed(r)
                    /\ err[r].detail.err = "expanded to empty string"
               ELSE /\ ExpansionSucceeded(r)
                    /\ projectName[r] = ToLower(Pattern)

\* "A}$" was expanded to "a}$"
C11_Witness ==
    \E r \in Runs :
        /\ ExpansionSucceeded(r)
        /\ Pattern = <<"A", "}", "$">>
        /\ projectName[r] = <<"a", "}", "$">>

\* the least element of a non-empty set of numbers
Least(S) == CHOOSE i \in S : \A k \in S : i <= k

Recognized(e) ==
    \/ e = <<"t","o","d","a","y">>
    \/ (Len(e) >= 4 /\ SubSeq(e, 1, 4) = <<"e","n","v",".">>)

RECURSIVE FirstOffence(_, _)
\* the markers of p read by position, from position from on: a marker
\* begins at the leftmost "${" and ends at the first "}" after it, the next
\* one is looked for after that "}".  The result is the error of the first
\* marker that is unclosed or whose expression is not recognized.
FirstOffence(p, from) ==
    LET opens == {i \in from..Len(p) : MarkerAt(p, i)}
    IN  IF opens = {} THEN [err |-> "nil", expr |-> <<>>]
        ELSE LET i      == Least(opens)
                 closes == {j \in (i + 2)..Len(p) : p[j] = "}"}
             IN  IF closes = {} THEN [err |-> "unclosed substitution", expr |-> <<>>]
                 ELSE LET j == Least(closes)
                          e == SubSeq(p, i + 2, j - 1)
                      IN  IF Recognized(e) THEN FirstOffence(p, j + 1)
                          ELSE [err |-> "unrecognized expression", expr |-> e]

\* a "${" of p with no "}" anywhere after it
OpenEnded(p) ==
    \E i \in 1..Len(p) : MarkerAt(p, i) /\ \A j \in (i + 2)..Len(p) : p[j] # "}"

CallsOfSite(r, site) == SelectSeq(calls[r], LAMBDA c : c.site = site)

\* run r has entered the stage ENABLE_SERVICES and is not in the middle of it
EnableServicesReturned(r) ==
    /\ CallsOfSite(r, "enableServices") # <<>>
    /\ pc[r] \notin {"enableServices", "waitServices"}

(***************************************************************************)
(* C13: with an empty configured service list the stage ENABLE_SERVICES    *)
(* issues no batch-enable request and returns success, so that the run     *)
(* goes on to RUN_SETUP.                                                   *)
(***************************************************************************)
C13_EmptyServiceList ==
    \A r \in Runs :
        (config.Services = <<>> /\ EnableServicesReturned(r))
            => /\ BatchRequests(r, "enableServices") = {}
               /\ \A k \in 1..Len(calls[r]) :
                      calls[r][k].site = "enableServices" => calls[r][k].res = "ok"
               /\ \/ pc[r] \in {"runSetup", "DONE"}
                  \/ \E k \in 1..Len(calls[r]) : calls[r][k].site = "runSetup"

\* with an empty list the stage failed to construct its client and the run
\* was aborted
C13_Witness ==
    \E r \in Runs :
        /\ config.Services = <<>>
        /\ pc[r] = "ABORT"
        /\ err[r] = Error("error creating serviceusage client")
        /\ calls[r][Len(calls[r])].site = "enableServices"
        /\ BatchRequests(r, "enableServices") = {}

\* the last call of run r after the step
LastCallAfter(r) == calls'[r][Len(calls'[r])]

\* the step has run r make a call
Called(r) == Len(calls'[r]) > Len(calls[r])

\* the step has run r receive an operation that is not done
AnsweredNotDone(r) ==
    /\ Called(r)
    /\ LastCallAfter(r).api \in {"Projects.Create", "Operations.Get"}
    /\ LastCallAfter(r).res = "ok"
    /\ ~LastCallAfter(r).ret.Done

(***************************************************************************)
(* C14: the loop of createProject is left only by an operation that        *)
(* reports done or by a poll that fails: an answer "not done", however     *)
(* many came before it, leaves the run polling in ENSURE_PROJECT.  Under   *)
(* the fairness of SpecLive, with every operation done after at most       *)
(* MaxPolls answers "not done", every run that has started reaches DONE or *)
(* ABORT.                                                                  *)
(***************************************************************************)
C14_Termination ==
    /\ [][\A r \in Runs :
              /\ AnsweredNotDone(r) => pc'[r] = "pollOperation"
              /\ (pc[r] = "pollOperation" /\ pc'[r] # "pollOperation")
                     => /\ Called(r)
                        /\ LastCallAfter(r).api = "Operations.Get"
                        /\ \/ LastCallAfter(r).res = "err"
                           \/ LastCallAfter(r).ret.Done]_vars
    /\ \A r \in Runs : (pc[r] = "start") ~> (pc[r] \in Terminal)

\* the run has been answered "not done" MaxPolls times and is polling again
C14_Witness ==
    \E r \in Runs :
        /\ pc[r] = "pollOperation"
        /\ polls[r] = MaxPolls
        /\ Cardinality(At(r, "Operations.Get")) = MaxPolls

\* run r was told by its lookup that the project is absent and has issued
\* its creation request for the identifier id
ObservedAbsentAndCreated(r, id) ==
    /\ \E j \in At(r, "Projects.Get") : MeansAbsent(calls[r][j])
    /\ \E k \in At(r, "Projects.Create") : calls[r][k].project = id

(***************************************************************************)
(* C15: with two invocations running at the same time for one project      *)
(* identifier, each run still issues at most one creation request, after   *)
(* its own lookup stood for "absent", but the lookup of a run and its      *)
(* creation request are two steps and nothing ties the runs together: the  *)
(* creation requests for one identifier are bounded by the number of runs, *)
(* not by one (the witness is the interleaving with two of them).          *)
(***************************************************************************)
C15_CheckThenActRace ==
    /\ \A r \in Runs :
           /\ Cardinality(At(r, "Projects.Create")) <= 1
           /\ CreationGated(r)
           /\ \A k \in At(r, "Projects.Create") :
                  calls[r][k].project = ToLower(PatternLiteral)
    /\ Cardinality({r \in Runs : At(r, "Projects.Create") # {}}) <= Cardinality(Racers)

\* both runs were told "not found" while the project was absent, and both
\* have issued a creation request for the same identifier
C15_Witness ==
    /\ ObservedAbsentAndCreated(1, ToLower(PatternLiteral))
    /\ ObservedAbsentAndCreated(2, ToLower(PatternLiteral))
    /\ \A r \in Racers :
           \E j \in At(r, "Projects.Get") :
               calls[r][j].ret.IsGoogleapiError /\ calls[r][j].ret.Code = 404

\* the positions at which run r constructed a project-management client
Constructions(r) == At(r, "cloudresourcemanager.NewService")

\* the positions of the calls run r made through the project-management
\* client
HandleUses(r) ==
    At(r, "Projects.Get") \cup At(r, "Projects.Create") \cup At(r, "Operations.Get")

(***************************************************************************)
(* C16: a run constructs the project-management client at most once, as    *)
(* the first thing ENSURE_PROJECT does; the lookup, the creation request   *)
(* and every poll of the run come after that one successful construction   *)
(* and so go through its handle; the handle is set exactly when the        *)
(* construction has succeeded, and a failed construction leaves it unset   *)
(* and is the last call of the run, which aborts.                          *)
(***************************************************************************)
C16_MemoizedClient ==
    \A r \in Runs :
        /\ Cardinality(Constructions(r)) <= 1
        /\ \A k \in Constructions(r) :
               /\ k = 1
               /\ calls[r][k].site = "getProject"
        /\ \A k \in HandleUses(r) :
               \E j \in Constructions(r) : j < k /\ calls[r][j].res = "ok"
        /\ (pc[r] # "exited") =>
               (crmService[r] <=> \E j \in Constructions(r) : calls[r][j].res = "ok")
        /\ \A j \in Constructions(r) :
               calls[r][j].res = "err" =>
                   /\ j = Len(calls[r])
                   /\ ~crmService[r]
                   /\ pc[r] = "ABORT"
                   /\ err[r] = Error("error creating cloudresourcemanager client")

\* a run with one construction whose handle served the lookup, the creation
\* request and two polls
C16_Witness ==
    \E r \in Runs :
        /\ Cardinality(Constructions(r)) = 1
        /\ crmService[r]
        /\ At(r, "Projects.Get") # {}
        /\ At(r, "Projects.Create") # {}
        /\ Cardinality(At(r, "Operations.Get")) = 2

UpperCaseAscii ==
    {"A","B","C","D","E","F","G","H","I","J","K","L","M",
     "N","O","P","Q","R","S","T","U","V","W","X","Y","Z"}

\* the text the scan of the pattern has built when it ends without an error
BuiltText(p) == ExpandLoop(p, <<>>)

(***************************************************************************)
(* C17: a successful expansion is never empty and holds no upper-case      *)
(* ASCII letter, whether the letter came from the pattern or from the      *)
(* value of an environment variable; and whenever the text built from the  *)
(* pattern is empty, as for the empty pattern and for "${env.M}" with M    *)
(* unset, the expansion fails with the empty-expansion error, and only     *)
(* then.                                                                   *)
(***************************************************************************)
C17_NonEmptyLowercase ==
    \A r \in Runs :
        ExpansionDone(r) =>
            /\ ExpansionSucceeded(r) =>
                   /\ projectName[r] # <<>>
                   /\ \A k \in 1..Len(projectName[r]) :
                          projectName[r][k] \notin UpperCaseAscii
                   /\ Len(projectName[r]) = Len(BuiltText(Pattern).s)
            /\ (BuiltText(Pattern).err = "nil" /\ BuiltText(Pattern).s = <<>>)
                   <=> /\ ExpansionFailed(r)
                       /\ err[r].detail.err = "expanded to empty string"
            /\ Pattern \in {<<>>, <<"$","{","e","n","v",".","M","}">>} =>
                   /\ ExpansionFailed(r)
                   /\ err[r].detail.err = "expanded to empty string"
                   /\ projectName[r] = <<>>
            /\ Pattern = <<"$","{","e","n","v",".","U","S","E","R","}">> =>
                   /\ ExpansionSucceeded(r)
                   /\ projectName[r] = <<"b","o","b">>

\* "${env.Z}A" with Z=A${ was expanded to "a${a"
C17_Witness ==
    \E r \in Runs :
        /\ ExpansionSucceeded(r)
        /\ Pattern = <<"$","{","e","n","v",".","Z","}","A">>
        /\ projectName[r] = <<"a","$","{","a">>

\* the calls that name a project
NamesProject(c) ==
    c.api \in {"Projects.Get", "Projects.Create", "Operations.Get", "GetBillingInfo",
               "UpdateBillingInfo", "BatchEnableServices", "BatchEnableServices.Wait",
               "exec"}

(***************************************************************************)
(* C18: a run whose name pattern does not expand (unclosed substitution,   *)
(* unrecognized expression, empty expansion) makes no remote call and      *)
(* executes no setup command, and once past the expansion it is in ABORT   *)
(* with exit status 1; and the identifier of a run is the one value        *)
(* expandProjectName returned: it does not change while the run lasts, the *)
(* lookup, the creation request, the polls, the billing calls and both     *)
(* service-enable requests carry it, and every executed command is its     *)
(* template with ${PROJECT_ID} replaced by it.                             *)
(***************************************************************************)
C18_ExpandOnceBeforeAnyCall ==
    /\ [](\A r \in Runs :
            /\ expandProjectName(Pattern).err # "nil" =>
                   /\ calls[r] = <<>>
                   /\ ExpansionDone(r) =>
                          /\ pc[r] = "ABORT"
                          /\ exitCode[r] = 1
                          /\ err[r].msg = "error expanding project name"
                          /\ err[r].detail.err \in
                                 {"unclosed substitution", "unrecognized expression",
                                  "expanded to empty string"}
            /\ calls[r] # <<>> =>
                   /\ projectName[r] = expandProjectName(Pattern).s
                   /\ \A k \in 1..Len(calls[r]) :
                          NamesProject(calls[r][k]) =>
                              calls[r][k].project = projectName[r]
                   /\ \A j \in 1..Len(Executed(r)) :
                          IsExpansion(config.SetupCommands[j], projectName[r],
                                      Executed(r)[j].arg)
                   /\ \A s \in {"enableBootstrap", "enableServices"} :
                          \A k \in BatchRequests(r, s) :
                              calls[r][k].project = projectName[r])
    /\ [][\A r \in Runs :
              (ExpansionSucceeded(r) /\ pc'[r] # "exited")
                  => projectName'[r] = projectName[r]]_vars

\* a run whose pattern "x-${bogus}" did not expand is in ABORT with exit
\* status 1 and has made no call
C18_Witness ==
    \E r \in Runs :
        /\ Pattern = PatternBogus
        /\ pc[r] = "ABORT"
        /\ exitCode[r] = 1
        /\ err[r].msg = "error expanding project name"
        /\ calls[r] = <<>>

\* the lookup of run r found the project
LookupFound(r) == \E j \in At(r, "Projects.Get") : calls[r][j].res = "ok"

\* run r has done everything the stages after ENSURE_PROJECT do
LaterStagesDone(r) ==
    /\ \E k \in BatchRequests(r, "enableBootstrap") :
           /\ calls[r][k].arg = BootstrapServices
           /\ calls[r][k].res = "ok"
    /\ \E k \in At(r, "GetBillingInfo") : calls[r][k].res = "ok"
    /\ config.Services # <<>> =>
           \E k \in BatchRequests(r, "enableServices") :
               /\ calls[r][k].arg = config.Services
               /\ calls[r][k].res = "ok"
    /\ Len(Executed(r)) = Len(config.SetupCommands)
    /\ \A j \in 1..Len(Executed(r)) :
           /\ Executed(r)[j].arg = ExpandCommand(config.SetupCommands[j], projectName[r])
           /\ Executed(r)[j].res = "ok"

(***************************************************************************)
(* C19: a run that ends in DONE has enabled the bootstrap service, fetched *)
(* the billing info, enabled the configured services and executed every    *)
(* setup command, whether its lookup found the project or the run created  *)
(* it; so a successful run that follows a successful run finds the project *)
(* present, creates nothing, and executes every setup command again.       *)
(***************************************************************************)
C19_LaterStagesRegardless ==
    \A r \in Runs :
        pc[r] = "DONE" =>
            /\ LaterStagesDone(r)
            /\ LookupFound(r) <=> At(r, "Projects.Create") = {}
            /\ (r > 1 /\ exitCode[r - 1] = 0) =>
                   /\ LookupFound(r)
                   /\ atStart[r].project

\* the second of two successful runs found the project present and has
\* executed the three setup commands of the configuration
C19_Witness ==
    /\ exitCode[1] = 0
    /\ pc[2] = "DONE"
    /\ LookupFound(2)
    /\ Len(config.SetupCommands) = 3
    /\ Len(Executed(2)) = 3

\* t is what is left of p after some of its characters were read
IsSuffix(t, p) == Len(t) <= Len(p) /\ t = SubSeq(p, Len(p) - Len(t) + 1, Len(p))

(***************************************************************************)
(* C20: the unread input of the scan is at every turn of the loop a suffix *)
(* of the pattern, strictly shorter than at the turn before, so the scan   *)
(* ends and no substituted value is ever read again: the value of an       *)
(* environment variable reaches the result as it is, lowercased, and does  *)
(* not cause an error: "${env.X}" with X=${today} gives "${today}",        *)
(* "${env.Y}" with Y=${bogus} gives "${bogus}", "${env.Z}" with Z=A${      *)
(* gives "a${", also when the pattern goes on with "today}"; an            *)
(* unclosed-substitution or unrecognized-expression error comes from a     *)
(* marker of the pattern itself.                                           *)
(***************************************************************************)
C20_ValuesNotRescanned ==
    \A r \in Runs :
        ExpansionDone(r) =>
            LET ins == expandProjectName(Pattern).ins
            IN  /\ ins[1] = Pattern
                /\ \A k \in 1..Len(ins) : IsSuffix(ins[k], Pattern)
                /\ \A k \in 1..(Len(ins) - 1) : Len(ins[k + 1]) < Len(ins[k])
                /\ Len(ins) <= Len(Pattern) + 1
                /\ (ExpansionFailed(r) /\ err[r].detail.err # "expanded to empty string")
                       => err[r].detail.err = FirstOffence(Pattern, 1).err
                /\ ExpansionSucceeded(r) => FirstOffence(Pattern, 1).err = "nil"
                /\ Pattern = <<"$","{","e","n","v",".","X","}">> =>
                       /\ ExpansionSucceeded(r)
                       /\ projectName[r] = <<"$","{","t","o","d","a","y","}">>
                /\ Pattern = <<"$","{","e","n","v",".","Y","}">> =>
                       /\ ExpansionSucceeded(r)
                       /\ projectName[r] = <<"$","{","b","o","g","u","s","}">>
                /\ Pattern = <<"$","{","e","n","v",".","Z","}">> =>
                       /\ ExpansionSucceeded(r)
                       /\ projectName[r] = <<"a","$","{">>
                /\ Pattern = <<"$","{","e","n","v",".","Z","}","t","o","d","a","y","}">> =>
                       /\ ExpansionSucceeded(r)
                       /\ projectName[r] = <<"a","$","{","t","o","d","a","y","}">>

\* "${env.X}${env.Y}" was expanded to "${today}${bogus}"
C20_Witness ==
    \E r \in Runs :
        /\ ExpansionSucceeded(r)
        /\ Pattern = <<"$","{","e","n","v",".","X","}","$","{","e","n","v",".","Y","}">>
        /\ projectName[r] =
               <<"$","{","t","o","d","a","y","}","$","{","b","o","g","u","s","}">>

====
